---- MODULE Spec2Model ----
(***************************************************************************)
(* svg2librepcb: conversion of SVG polylines into LibrePCB library         *)
(* elements (src/src/main.rs).                                             *)
(*                                                                         *)
(* Texts.  A text (a Rust String) is a sequence of tokens whose content is *)
(* the concatenation of the tokens.  Every character the properties look   *)
(* at (the double quote, the backslash, the decimal point, the minus sign  *)
(* and the digits of a formatted number, the characters of a caller's      *)
(* text) is a token of its own; the fixed pieces of a format string        *)
(* between them are one token each.                                        *)
(*                                                                         *)
(* Floats.  An f64 is a record [neg, exp, sig] of IEEE 754 binary64: the   *)
(* sign bit, the unbiased exponent and the 53-bit significand, standing    *)
(* for sig * 2^(exp - 52); a zero has the empty significand.  The          *)
(* significand is a natural number held as a sequence of limbs, least      *)
(* significant first.  Sums round to nearest, ties to even, as the         *)
(* hardware does.  Subnormal numbers, infinities and NaN are not           *)
(* represented: the exponent is unbounded.                                 *)
(***************************************************************************)
EXTENDS Integers, Sequences, FiniteSets, TLC

VARIABLES
    pc,          \* position of the run
    args,        \* the parsed command line (struct Args)
    polylines,   \* result of svg2polylines::parse
    uuids,       \* number of identifiers make_uuid has returned so far
    polygon,     \* result of a make_polygon call
    footprints,  \* Vec of footprints (each a Vec<String>)
    sym, cmp, pkg, dev,   \* the four generated documents (Vec<String>)
    ids,         \* the locals uuid_sym, uuid_cmp, uuid_pkg, uuid_dev
    files,       \* paths created below the library directory by this run
    val,         \* argument of a format_float call
    formatted    \* result of a format_float call

vars == <<pc, args, polylines, uuids, polygon, footprints, sym, cmp, pkg, dev,
          ids, files, val, formatted>>

-----------------------------------------------------------------------------
(* f64 *)

\* Bits per limb of a natural number
LimbBits == 14
Base == 2 ^ LimbBits

\* Natural numbers of any size: sequences of limbs below Base, least
\* significant first, without leading zero limbs; zero is <<>>.
RECURSIVE Trim(_)
Trim(a) ==
    IF a # <<>> /\ a[Len(a)] = 0 THEN Trim(SubSeq(a, 1, Len(a) - 1)) ELSE a

RECURSIVE Big(_)
Big(n) == IF n = 0 THEN <<>> ELSE <<n % Base>> \o Big(n \div Base)

\* The value of a natural number that fits the machine integers
RECURSIVE Small(_)
Small(a) == IF a = <<>> THEN 0 ELSE a[1] + Base * Small(Tail(a))

Limb(a, i) == IF i <= Len(a) THEN a[i] ELSE 0

RECURSIVE CmpFrom(_, _, _)
CmpFrom(a, b, i) ==
    IF i = 0 THEN 0
    ELSE IF a[i] < b[i] THEN -1
    ELSE IF a[i] > b[i] THEN 1
    ELSE CmpFrom(a, b, i - 1)

\* -1, 0, 1 as a < b, a = b, a > b
BigCmp(a, b) ==
    IF Len(a) < Len(b) THEN -1
    ELSE IF Len(a) > Len(b) THEN 1
    ELSE CmpFrom(a, b, Len(a))

RECURSIVE AddFrom(_, _, _, _)
AddFrom(a, b, i, carry) ==
    IF i > Len(a) /\ i > Len(b)
    THEN IF carry = 0 THEN <<>> ELSE <<carry>>
    ELSE <<(Limb(a, i) + Limb(b, i) + carry) % Base>>
         \o AddFrom(a, b, i + 1, (Limb(a, i) + Limb(b, i) + carry) \div Base)

BigAdd(a, b) == AddFrom(a, b, 1, 0)

RECURSIVE SubFrom(_, _, _, _)
SubFrom(a, b, i, borrow) ==
    IF i > Len(a) THEN <<>>
    ELSE <<(a[i] - Limb(b, i) - borrow + Base) % Base>>
         \o SubFrom(a, b, i + 1, IF a[i] - Limb(b, i) - borrow < 0 THEN 1 ELSE 0)

\* a - b for a >= b
BigSub(a, b) == Trim(SubFrom(a, b, 1, 0))

RECURSIVE MulFrom(_, _, _, _)
MulFrom(a, c, i, carry) ==
    IF i > Len(a) THEN Big(carry)
    ELSE <<(a[i] * c + carry) % Base>>
         \o MulFrom(a, c, i + 1, (a[i] * c + carry) \div Base)

\* a * c for 0 < c <= 2^17
BigMulSmall(a, c) == MulFrom(a, c, 1, 0)

\* The quotient limb put above the limbs of the rest
Above(rest, limb) == [q |-> rest.q \o <<limb>>, r |-> rest.r]

RECURSIVE DivFrom(_, _, _, _)
DivFrom(a, c, i, rem) ==
    IF i = 0 THEN [q |-> <<>>, r |-> rem]
    ELSE Above(DivFrom(a, c, i - 1, (rem * Base + a[i]) % c),
               (rem * Base + a[i]) \div c)

Trimmed(d) == [q |-> Trim(d.q), r |-> d.r]

\* quotient and remainder of a by c, 0 < c <= 2^17
BigDivSmall(a, c) == Trimmed(DivFrom(a, c, Len(a), 0))

\* a * 2^s
ShiftLeft(a, s) ==
    IF a = <<>> THEN <<>>
    ELSE [i \in 1..(s \div LimbBits) |-> 0] \o BigMulSmall(a, 2 ^ (s % LimbBits))

\* a \div 2^s
ShiftRight(a, s) ==
    IF s \div LimbBits >= Len(a) THEN <<>>
    ELSE BigDivSmall(SubSeq(a, (s \div LimbBits) + 1, Len(a)),
                     2 ^ (s % LimbBits)).q

RECURSIVE Bits(_)
Bits(n) == IF n = 0 THEN 0 ELSE 1 + Bits(n \div 2)

\* The number of bits of a
BitLength(a) ==
    IF a = <<>> THEN 0 ELSE (Len(a) - 1) * LimbBits + Bits(a[Len(a)])

\* q or q + 1 as the remainder compares with the half (c): ties to even
TiesToEven(q, c) ==
    IF c > 0 \/ (c = 0 /\ Limb(q, 1) % 2 = 1) THEN BigAdd(q, <<1>>) ELSE q

\* a / 2^s rounded to nearest, given q = a \div 2^s
Nearest(a, s, q) ==
    TiesToEven(q, BigCmp(BigSub(a, ShiftLeft(q, s)), ShiftLeft(<<1>>, s - 1)))

\* a / 2^s rounded to the nearest natural number, ties to even
RoundShift(a, s) ==
    IF s = 0 THEN a
    ELSE IF s > BitLength(a) + 1 THEN <<>>
    ELSE Nearest(a, s, ShiftRight(a, s))

\* Bits of the binary64 significand, the implicit one included
SigBits == 53

\* 0.0 and -0.0
Zero(neg) == [neg |-> neg, exp |-> 0, sig |-> <<>>]

\* The float of the rounded significand q whose leading bit weighs 2^exp;
\* a significand rounded up to 2^SigBits is renormalised
Renormalised(neg, q, exp) ==
    IF BitLength(q) > SigBits
    THEN [neg |-> neg, exp |-> exp + 1, sig |-> ShiftRight(q, 1)]
    ELSE [neg |-> neg, exp |-> exp, sig |-> q]

\* The binary64 value nearest to n * 2^e, for n of len bits
Normalised(neg, n, e, len) ==
    IF len <= SigBits
    THEN [neg |-> neg, exp |-> e + len - 1, sig |-> ShiftLeft(n, SigBits - len)]
    ELSE Renormalised(neg, RoundShift(n, len - SigBits), e + len - 1)

\* The binary64 value nearest to n * 2^e, ties to even, for n > 0
Round(neg, n, e) == Normalised(neg, n, e, BitLength(n))

\* Units per 1.0 of a decimal with five fractional digits.
Scale == 10 ^ 5

\* Twice the quotient, plus one if the remainder is not zero
Sticky(d) == BigAdd(ShiftLeft(d.q, 1), IF d.r = 0 THEN <<>> ELSE <<1>>)

\* The float a decimal denotes (a literal, a parsed coordinate): the binary64
\* value nearest to mag / Scale.  The quotient keeps more than SigBits + 2
\* bits and one more bit for a remainder.
F(neg, mag) ==
    IF mag = 0 THEN Zero(neg)
    ELSE Round(neg, Sticky(BigDivSmall(ShiftLeft(Big(mag), 2 * SigBits), Scale)),
               -(2 * SigBits + 1))

\* A literal with an integral value, e.g. 2.0
Lit(n) == IF n < 0 THEN F(TRUE, (-n) * Scale) ELSE F(FALSE, n * Scale)

\* |a| * units rounded to the nearest natural number, ties to even
Scaled(a, units) ==
    IF a.sig = <<>> THEN <<>>
    ELSE IF a.exp >= SigBits - 1
         THEN ShiftLeft(BigMulSmall(a.sig, units), a.exp - (SigBits - 1))
         ELSE RoundShift(BigMulSmall(a.sig, units), (SigBits - 1) - a.exp)

\* The decimal with five fractional digits nearest to a, in units of 1/Scale
Num(a) == IF a.neg THEN -Small(Scaled(a, Scale)) ELSE Small(Scaled(a, Scale))

\* -1, 0, 1 as |a| < |b|, |a| = |b|, |a| > |b|
MagCmp(a, b) ==
    IF a.sig = <<>> THEN (IF b.sig = <<>> THEN 0 ELSE -1)
    ELSE IF b.sig = <<>> THEN 1
    ELSE IF a.exp < b.exp THEN -1
    ELSE IF a.exp > b.exp THEN 1
    ELSE BigCmp(a.sig, b.sig)

\* f64 <
FLess(a, b) ==
    IF a.neg = b.neg
    THEN (IF a.neg THEN MagCmp(a, b) > 0 ELSE MagCmp(a, b) < 0)
    ELSE a.neg /\ ~(a.sig = <<>> /\ b.sig = <<>>)

\* f64 == (0.0 == -0.0 holds)
FEq(a, b) == (a.sig = <<>> /\ b.sig = <<>>) \/ a = b

\* unary minus: flips the sign bit, also of a zero
FNeg(a) == [a EXCEPT !.neg = ~a.neg]

\* x * 2^e - y * 2^e with the sign xneg, given how x compares with y (c)
Difference(xneg, x, y, e, c) ==
    IF c = 0 THEN Zero(FALSE)
    ELSE IF c > 0 THEN Round(xneg, BigSub(x, y), e)
    ELSE Round(~xneg, BigSub(y, x), e)

\* The sum of the signed numbers x * 2^e and y * 2^e, rounded
Sum(xneg, x, yneg, y, e) ==
    IF xneg = yneg THEN Round(xneg, BigAdd(x, y), e)
    ELSE Difference(xneg, x, y, e, BigCmp(x, y))

\* a + b: the exact sum rounded to nearest, ties to even; an exact zero sum
\* is -0.0 only if both are -0.0; an operand below a quarter of the other's
\* unit in the last place does not change it
FAdd(a, b) ==
    IF a.sig = <<>> /\ b.sig = <<>> THEN Zero(a.neg /\ b.neg)
    ELSE IF a.sig = <<>> THEN b
    ELSE IF b.sig = <<>> THEN a
    ELSE IF a.exp - b.exp > SigBits + 2 THEN a
    ELSE IF b.exp - a.exp > SigBits + 2 THEN b
    ELSE IF a.exp < b.exp
         THEN Sum(a.neg, a.sig, b.neg, ShiftLeft(b.sig, b.exp - a.exp),
                  a.exp - (SigBits - 1))
         ELSE Sum(a.neg, ShiftLeft(a.sig, a.exp - b.exp), b.neg, b.sig,
                  b.exp - (SigBits - 1))

\* a - b
FSub(a, b) == FAdd(a, FNeg(b))

\* a / 2.0: exact, the sign bit stays
FHalf(a) == IF a.sig = <<>> THEN a ELSE [a EXCEPT !.exp = a.exp - 1]

\* f64::min and f64::max
FMin(a, b) == IF FLess(b, a) THEN b ELSE a
FMax(a, b) == IF FLess(a, b) THEN b ELSE a

-----------------------------------------------------------------------------
(* format!("{:.3}", val) *)

DigitChars == <<"0", "1", "2", "3", "4", "5", "6", "7", "8", "9">>

\* The decimal digits of a natural number
RECURSIVE Digits(_)
Digits(n) ==
    IF BigCmp(n, <<10>>) < 0 THEN <<DigitChars[Small(n) + 1]>>
    ELSE Digits(BigDivSmall(n, 10).q) \o <<DigitChars[BigDivSmall(n, 10).r + 1]>>

\* The magnitude in thousandths: the exact binary value rounded to nearest,
\* ties to even
Thousandths(a) == Scaled(a, 1000)

\* The integer digits (t.q), the point and the three fractional digits (t.r)
Fraction3(t) ==
    Digits(t.q) \o <<".">>
    \o <<DigitChars[(t.r \div 100) + 1], DigitChars[((t.r \div 10) % 10) + 1],
         DigitChars[(t.r % 10) + 1]>>

\* Fixed notation with three fractional digits; the sign is the sign bit,
\* also when the digits round to zero ("-0.000").
Fixed3(a) ==
    (IF a.neg THEN <<"-">> ELSE <<>>)
    \o Fraction3(BigDivSmall(Thousandths(a), 1000))

ends_with(s, c) == Len(s) > 0 /\ s[Len(s)] = c

\* s without its last n tokens (strip_suffix(..).unwrap())
strip_suffix(s, n) == SubSeq(s, 1, Len(s) - n)

StripOne(f) == IF ends_with(f, "0") THEN strip_suffix(f, 1) ELSE f

\* "if formatted.ends_with('0') ..": one or two trailing zeros are removed
Stripped(f) ==
    IF ends_with(f, "0")
    THEN IF f[Len(f) - 1] = "0"
         THEN strip_suffix(f, 2)
         ELSE strip_suffix(f, 1)
    ELSE f

\* A plausible slip: only ever one trailing zero is removed.
format_float_one(v) ==
    IF FEq(v, Zero(TRUE)) THEN <<"0", ".", "0">>
    ELSE StripOne(Fixed3(v))

format_float(v) ==
    IF FEq(v, Zero(TRUE)) THEN <<"0", ".", "0">> ELSE Stripped(Fixed3(v))

-----------------------------------------------------------------------------
(* Identifiers, timestamps, options *)

\* The n-th identifier Uuid::new_v4 returns in a run.  Version-4 identifiers
\* are taken to be fresh: different from each other and from every string
\* a caller passes on the command line.
Uuid(n) == "g" \o ToString(n)

\* make_uuid(), called when u identifiers have been returned already
make_uuid(u) == Uuid(u + 1)

\* What the system clock can return to the calls of one run
Instants == {"2026-01-01T00:00:00", "2026-01-01T00:00:01"}

\* Utc::now().to_rfc3339().replace("+00:00", "Z") when the clock returns t
now(t) == t \o "Z"

\* Option<String>: None is the empty sequence, Some(x) is <<x>>
None == <<>>
Some(x) == <<x>>

QUOTE == "\""

-----------------------------------------------------------------------------
(* make_polygon *)

Align == {"None", "Center", "TopLeft", "BottomLeft"}

Pt(x, y) == [x |-> x, y |-> y]

\* CoordinatePair == (derived PartialEq)
PtEq(p, q) == FEq(p.x, q.x) /\ FEq(p.y, q.y)

RECURSIVE Flatten(_)
Flatten(pls) == IF pls = <<>> THEN <<>> ELSE Head(pls) \o Flatten(Tail(pls))

\* The loop over every pair of every polyline, main.rs lines 147-154.
RECURSIVE ScanBounds(_, _)
ScanBounds(points, b) ==
    IF points = <<>> THEN b
    ELSE LET pair == Head(points)
         IN  ScanBounds(Tail(points),
                        [x_min |-> FMin(pair.x, b.x_min),
                         x_max |-> FMax(pair.x, b.x_max),
                         y_min |-> FMin(pair.y, b.y_min),
                         y_max |-> FMax(pair.y, b.y_max)])

\* A plausible slip: only the first polyline is scanned.
FindBoundsFirstOnly(pls) ==
    LET first_pair == pls[1][1]
    IN  ScanBounds(pls[1],
                   [x_min |-> first_pair.x, x_max |-> first_pair.x,
                    y_min |-> first_pair.y, y_max |-> first_pair.y])

\* "First, find bounds to allow centering"
FindBounds(pls) ==
    LET first_pair == pls[1][1]
    IN  ScanBounds(Flatten(pls),
                   [x_min |-> first_pair.x, x_max |-> first_pair.x,
                    y_min |-> first_pair.y, y_max |-> first_pair.y])

\* "Calculate offset (still in SVG coordinate mode)"
Offset(align, b) ==
    CASE align = "None"       -> [dx |-> Zero(FALSE), dy |-> Zero(FALSE)]
      [] align = "Center"     ->
            [dx |-> FSub(FNeg(b.x_min), FHalf(FSub(b.x_max, b.x_min))),
             dy |-> FSub(FNeg(b.y_min), FHalf(FSub(b.y_max, b.y_min)))]
      [] align = "TopLeft"    -> [dx |-> FNeg(b.x_min), dy |-> FNeg(b.y_min)]
      [] align = "BottomLeft" -> [dx |-> FNeg(b.x_min), dy |-> FNeg(b.y_max)]

\* A plausible slip: closedness decided once, from the first polyline.
IsClosedFirst(pls, i) == PtEq(pls[1][1], pls[1][Len(pls[1])])

\* polyline[0] == polyline[polyline.len() - 1]
IsClosed(pls, i) == PtEq(pls[i][1], pls[i][Len(pls[i])])

VertexLine(pair, off) ==
    <<"  (vertex (position ">> \o Fixed3(FAdd(pair.x, off.dx)) \o <<" ">>
        \o Fixed3(FNeg(FAdd(pair.y, off.dy))) \o <<") (angle 0.0))">>

\* The lines pushed for one polyline; id is the identifier make_uuid returns.
PolygonBlock(layer, pls, i, off, id) ==
    LET closed == IsClosed(pls, i)
        width  == IF closed THEN "0.0" ELSE "0.2"
        fill   == IF closed THEN "true" ELSE "false"
    IN  << <<" (polygon ", QUOTE, id, QUOTE, " (layer ", layer, ")">>,
           <<"  (width ", width, ") (fill ", fill, ") (grab_area ", fill, ")">> >>
        \o [j \in 1..Len(pls[i]) |-> VertexLine(pls[i][j], off)]
        \o << <<" )">> >>

RECURSIVE PolygonBlocks(_, _, _, _, _)
PolygonBlocks(layer, pls, i, off, u) ==
    IF i > Len(pls) THEN <<>>
    ELSE PolygonBlock(layer, pls, i, off, make_uuid(u))
         \o PolygonBlocks(layer, pls, i + 1, off, u + 1)

\* The polygon of a non-empty collection with the offset off
Transformed(layer, pls, u, b, off) ==
    [lines |-> PolygonBlocks(layer, pls, 1, off, u),
     transformed_bounds |-> [y_min |-> FAdd(b.y_min, off.dy),
                             y_max |-> FAdd(b.y_max, off.dy)],
     u |-> u + Len(pls)]

\* The polygon of a non-empty collection with the bounds b
Bounded(layer, align, pls, u, b) ==
    Transformed(layer, pls, u, b, Offset(align, b))

\* struct Polygon, and the number of identifiers returned so far
make_polygon(layer, align, pls, u) ==
    IF pls = <<>>
    THEN [lines |-> <<>>,
          transformed_bounds |-> [y_min |-> Zero(FALSE), y_max |-> Zero(FALSE)],
          u |-> u]
    ELSE Bounded(layer, align, pls, u, FindBounds(pls))

-----------------------------------------------------------------------------
(* The builders.  Each returns its lines and the identifier count. *)

QuotedLine(key, text) == <<key, QUOTE>> \o text \o <<QUOTE, ")">>

CategoryLines(cat) ==
    IF cat = None THEN <<>> ELSE << <<" (category ", cat[1], ")">> >>

\* A plausible slip: one polygon block too few is copied into the footprint.
make_footprint_drop(layer, name, description, align, pls, u) ==
    [lines |-> << <<"(footprint ", make_uuid(u)>>,
                  QuotedLine(" (name ", name),
                  QuotedLine(" (description ", description) >>
               \o (IF pls # <<>>
                   THEN make_polygon(layer, align, Tail(pls), u + 1).lines
                   ELSE <<>>)
               \o << <<")">> >>,
     u |-> u + 1 + Len(pls)]

\* The footprint around the polygon p
Footprint(id, name, description, pls, p) ==
    [lines |-> << <<"(footprint ", id>>,
                  QuotedLine(" (name ", name),
                  QuotedLine(" (description ", description) >>
               \o (IF pls # <<>> THEN p.lines ELSE <<>>)
               \o << <<")">> >>,
     u |-> p.u]

make_footprint(layer, name, description, align, pls, u) ==
    Footprint(make_uuid(u), name, description, pls,
              make_polygon(layer, align, pls, u + 1))

\* The metadata lines shared by the four documents.
Metadata(opener, uuid, name, description, keywords, author, version, cat, t) ==
    << <<opener, uuid>>,
       QuotedLine(" (name ", name),
       QuotedLine(" (description ", description),
       QuotedLine(" (keywords ", keywords),
       QuotedLine(" (author ", author),
       QuotedLine(" (version ", version),
       <<" (created ", now(t), ")">>,
       <<" (deprecated false)">> >>
    \o CategoryLines(cat)

\* 1.27
Clearance == F(FALSE, 127 * (Scale \div 100))

\* A plausible slip: the symbol outline is not centred.
SymbolAlignNone == "None"

\* make_symbol always passes Align::Center
SymbolAlign == "Center"

\* The lines after the metadata: the polygon p and the two labels
SymbolBody(p) ==
    [lines |->
        p.lines
        \o << <<" (text ", make_uuid(p.u), " (layer sym_values) (value ",
                QUOTE, "{{VALUE}}", QUOTE, ")">>,
              <<"  (align center top) (height 2.5) (position 0.0 ">>
                 \o format_float(FSub(p.transformed_bounds.y_min, Clearance))
                 \o <<") (rotation 0.0)">>,
              <<" )">>,
              <<" (text ", make_uuid(p.u + 1), " (layer sym_names) (value ",
                QUOTE, "{{NAME}}", QUOTE, ")">>,
              <<"  (align center bottom) (height 2.5) (position 0.0 ">>
                 \o format_float(FAdd(p.transformed_bounds.y_max, Clearance))
                 \o <<") (rotation 0.0)">>,
              <<" )">>,
              <<")">> >>,
     u |-> p.u + 2]

\* The document of the metadata lines and a body
Headed(metadata, body) == [lines |-> metadata \o body.lines, u |-> body.u]

make_symbol(uuid, name, description, keywords, author, version, uuid_cmpcat, pls, u, t) ==
    Headed(Metadata("(librepcb_symbol ", uuid, name, description, keywords, author, version, uuid_cmpcat, t),
           SymbolBody(make_polygon("sym_outlines", SymbolAlign, pls, u)))

make_component(uuid, name, description, keywords, author, version, uuid_sym, uuid_cmpcat, u, t) ==
    [lines |->
        Metadata("(librepcb_component ", uuid, name, description, keywords,
                 author, version, uuid_cmpcat, t)
        \o << <<" (schematic_only false)">>,
              <<" (default_value ", QUOTE, QUOTE, ")">>,
              <<" (prefix ", QUOTE, QUOTE, ")">>,
              <<" (variant ", make_uuid(u), " (norm ", QUOTE, QUOTE, ")">>,
              <<"  (name ", QUOTE, "default", QUOTE, ")">>,
              <<"  (description ", QUOTE, QUOTE, ")">>,
              <<"  (gate ", make_uuid(u + 1)>>,
              <<"   (symbol ", uuid_sym, ")">>,
              <<"   (position 0.0 0.0) (rotation 0.0) (required true) (suffix ",
                QUOTE, QUOTE, ")">>,
              <<"  )">>,
              <<" )">>,
              <<")">> >>,
     u |-> u + 2]

\* format!(" {}", line) for every line of every footprint
Indented(fps) == [k \in 1..Len(Flatten(fps)) |-> <<" ">> \o Flatten(fps)[k]]

make_package(uuid, name, description, keywords, author, version, uuid_pkgcat, fps, t) ==
    Metadata("(librepcb_package ", uuid, name, description, keywords,
             author, version, uuid_pkgcat, t)
    \o Indented(fps)
    \o << <<")">> >>

make_device(uuid, name, description, keywords, author, version, uuid_cmp, uuid_pkg, uuid_cmpcat, t) ==
    Metadata("(librepcb_device ", uuid, name, description, keywords,
             author, version, uuid_cmpcat, t)
    \o << <<" (component ", uuid_cmp, ")">>,
          <<" (package ", uuid_pkg, ")">>,
          <<")">> >>

-----------------------------------------------------------------------------
(* Inputs *)

\* Largest multiple of 1/32 among the format_float arguments.
MaxK == 64

\* Arguments of format_float: the multiples of 1/32 (exact in binary64, with
\* exact rounding ties such as 0.0625), the cases of test_format_float,
\* values whose rendering rounds to zero or carries into the integer part,
\* decimal ties that binary64 does not hold exactly, and a halved value.
FormatInputs ==
    {F(n, k * (Scale \div 32)) : n \in BOOLEAN, k \in 0..MaxK}
    \cup {F(FALSE, 314456), F(TRUE, 700000), F(FALSE, 40000), F(TRUE, 0)}
    \cup {F(n, m) : n \in BOOLEAN, m \in {10, 40, 99960, 999960, 1000000}}
    \cup {F(n, m) : n \in BOOLEAN, m \in {50, 250, 450, 100050}}
    \cup {FHalf(F(n, 3125)) : n \in BOOLEAN}

\* Largest number of points in a polyline collection.
MaxTotalPoints == 3

GeomPoints ==
    {Pt(Lit(0), Lit(0)), Pt(Lit(2), Lit(2)), Pt(Lit(4), Lit(4)),
     Pt(Lit(-1), Lit(3))}

\* The collections of non-empty polylines with at most n points in all.
RECURSIVE Collections(_)
Collections(n) ==
    {<<>>} \cup
    UNION {{<<pl>> \o rest : pl \in [1..k -> GeomPoints],
                             rest \in Collections(n - k)} : k \in 1..n}

GeomPolylines == Collections(MaxTotalPoints)

Open2   == <<Pt(Lit(0), Lit(0)), Pt(Lit(2), Lit(2))>>
Closed3 == <<Pt(Lit(0), Lit(0)), Pt(Lit(4), Lit(4)), Pt(Lit(-1), Lit(3)),
             Pt(Lit(0), Lit(0))>>

\* What svg2polylines::parse returns in a full run.
ParsedPolylines == {<<>>, <<Open2>>, <<Closed3, Open2>>}

DefaultVersion == <<"0", ".", "1", ".", "0">>

DefaultArgs ==
    [name |-> <<"a">>, description |-> <<>>, author |-> <<"x">>,
     version |-> DefaultVersion, keywords |-> <<>>,
     uuid_pkg |-> None, uuid_sym |-> None, uuid_cmp |-> None,
     uuid_dev |-> None, uuid_pkgcat |-> None, uuid_cmpcat |-> None,
     layer_copper |-> TRUE, layer_placement |-> TRUE,
     layer_stopmask |-> TRUE, align |-> "None"]

GeomArgs == {[DefaultArgs EXCEPT !.align = a] : a \in Align}

UuidOption == {None, Some("u1")}

ArgsInputs ==
    [name : {<<"a">>, <<"a", QUOTE, "b">>},
     description : {<<>>},
     author : {<<"x">>},
     version : {DefaultVersion},
     keywords : {<<>>, <<"k">>},
     uuid_pkg : UuidOption, uuid_dev : UuidOption,
     uuid_sym : UuidOption \cup {Some("u2")},
     uuid_cmp : UuidOption \cup {Some("u2")},
     uuid_pkgcat : {None, Some("c1")}, uuid_cmpcat : {None, Some("c2")},
     layer_copper : {TRUE}, layer_placement : {TRUE},
     layer_stopmask : {TRUE},
     align : {"None", "Center"}]

NoPolygon == [lines |-> <<>>,
              transformed_bounds |-> [y_min |-> Lit(0), y_max |-> Lit(0)],
              u |-> 0]
NoIds == [sym |-> "", cmp |-> "", pkg |-> "", dev |-> ""]

\* Everything but pc, args, polylines and val is empty before the run.
Blank ==
    /\ uuids = 0
    /\ polygon = NoPolygon
    /\ footprints = <<>>
    /\ sym = <<>> /\ cmp = <<>> /\ pkg = <<>> /\ dev = <<>>
    /\ ids = NoIds
    /\ files = {}
    /\ formatted = <<>>

-----------------------------------------------------------------------------
(* format_float applied to one argument *)

InitFormat ==
    /\ pc = "format_float"
    /\ args = DefaultArgs
    /\ polylines = <<>>
    /\ val \in FormatInputs
    /\ Blank

CallFormatFloat ==
    /\ pc = "format_float"
    /\ formatted' = format_float(val)
    /\ pc' = "formatted"
    /\ UNCHANGED <<args, polylines, uuids, polygon, footprints, sym, cmp, pkg,
                   dev, ids, files, val>>

NextFormat == CallFormatFloat

SpecFormat == InitFormat /\ [][NextFormat]_vars

-----------------------------------------------------------------------------
(* make_polygon, make_footprint and make_symbol applied to one collection *)

InitGeom ==
    /\ pc = "make_polygon"
    /\ args \in GeomArgs
    /\ polylines \in GeomPolylines
    /\ val = Lit(0)
    /\ Blank

CallMakePolygon ==
    /\ pc = "make_polygon"
    /\ polygon' = make_polygon("top_cu", args.align, polylines, uuids)
    /\ uuids' = polygon'.u
    /\ pc' = "make_footprint"
    /\ UNCHANGED <<args, polylines, footprints, sym, cmp, pkg, dev, ids, files,
                   val, formatted>>

CallMakeFootprint ==
    /\ pc = "make_footprint"
    /\ \E fp \in {make_footprint("top_cu", <<"Top Copper">>, <<>>, args.align,
                                  polylines, uuids)} :
          /\ footprints' = <<fp.lines>>
          /\ uuids' = fp.u
    /\ pc' = "make_symbol"
    /\ UNCHANGED <<args, polylines, polygon, sym, cmp, pkg, dev, ids, files,
                   val, formatted>>

CallMakeSymbol ==
    /\ pc = "make_symbol"
    /\ \E t \in Instants :
          \E s \in {make_symbol("u1", args.name, args.description,
                                args.keywords, args.author, args.version,
                                args.uuid_cmpcat, polylines, uuids, t)} :
             /\ sym' = s.lines
             /\ uuids' = s.u
    /\ pc' = "built"
    /\ UNCHANGED <<args, polylines, polygon, footprints, cmp, pkg, dev, ids,
                   files, val, formatted>>

NextGeom == CallMakePolygon \/ CallMakeFootprint \/ CallMakeSymbol

SpecGeom == InitGeom /\ [][NextGeom]_vars

-----------------------------------------------------------------------------
(* main: one run of the program *)

Init ==
    /\ pc = "load_svg"
    /\ args \in ArgsInputs
    /\ polylines = <<>>
    /\ val = Lit(0)
    /\ Blank

\* load_svg(&args.svgfile) returns the text
LoadSvg ==
    /\ pc = "load_svg"
    /\ pc' = "parse"
    /\ UNCHANGED <<args, polylines, uuids, polygon, footprints, sym, cmp, pkg,
                   dev, ids, files, val, formatted>>

\* read_to_string fails: main returns the error
LoadSvgErr ==
    /\ pc = "load_svg"
    /\ pc' = "error"
    /\ UNCHANGED <<args, polylines, uuids, polygon, footprints, sym, cmp, pkg,
                   dev, ids, files, val, formatted>>

\* svg2polylines::parse returns Ok
ParseSvg ==
    /\ pc = "parse"
    /\ polylines' \in ParsedPolylines
    /\ pc' = "outpath"
    /\ UNCHANGED <<args, uuids, polygon, footprints, sym, cmp, pkg, dev, ids,
                   files, val, formatted>>

\* svg2polylines::parse returns Err: expect() panics
ParseSvgPanic ==
    /\ pc = "parse"
    /\ pc' = "panicked"
    /\ UNCHANGED <<args, polylines, uuids, polygon, footprints, sym, cmp, pkg,
                   dev, ids, files, val, formatted>>

\* the output path canonicalizes, exists and is a directory
OutpathOk ==
    /\ pc = "outpath"
    /\ pc' = "make_footprints"
    /\ UNCHANGED <<args, polylines, uuids, polygon, footprints, sym, cmp, pkg,
                   dev, ids, files, val, formatted>>

\* canonicalize fails, or the path does not exist or is no directory:
\* eprintln! writes the message, then exit(1)
OutpathInvalid ==
    /\ pc = "outpath"
    /\ pc' = "exit_1"
    /\ UNCHANGED <<args, polylines, uuids, polygon, footprints, sym, cmp, pkg,
                   dev, ids, files, val, formatted>>

\* the same, but stderr cannot be written: eprintln! panics before exit(1)
OutpathInvalidPanic ==
    /\ pc = "outpath"
    /\ pc' = "panicked"
    /\ UNCHANGED <<args, polylines, uuids, polygon, footprints, sym, cmp, pkg,
                   dev, ids, files, val, formatted>>

LayerTable ==
    << [flag |-> "layer_copper",    layer |-> "top_cu",
        name |-> <<"Top Copper">>],
       [flag |-> "layer_placement", layer |-> "top_placement",
        name |-> <<"Top Placement">>],
       [flag |-> "layer_stopmask",  layer |-> "top_stop_mask",
        name |-> <<"Top Stop Mask">>] >>

\* "Generate footprints": the footprints of layers k.. and the identifier count
RECURSIVE FootprintsFrom(_, _, _, _)

\* The footprint's lines before the footprints of the later layers
Prepended(lines, rest) == [fps |-> <<lines>> \o rest.fps, u |-> rest.u]

\* footprints.push(fp), then the layers after k
Pushed(k, a, pls, fp) == Prepended(fp.lines, FootprintsFrom(k + 1, a, pls, fp.u))

FootprintsFrom(k, a, pls, u) ==
    IF k > Len(LayerTable) THEN [fps |-> <<>>, u |-> u]
    ELSE IF a[LayerTable[k].flag]
         THEN Pushed(k, a, pls,
                     make_footprint(LayerTable[k].layer, LayerTable[k].name,
                                    <<>>, a.align, pls, u))
         ELSE FootprintsFrom(k + 1, a, pls, u)

MakeFootprints ==
    /\ pc = "make_footprints"
    /\ \E r \in {FootprintsFrom(1, args, polylines, uuids)} :
          /\ footprints' = r.fps
          /\ uuids' = r.u
    /\ pc' = "make_symbol"
    /\ UNCHANGED <<args, polylines, polygon, sym, cmp, pkg, dev, ids, files,
                   val, formatted>>

\* args.uuid_x.unwrap_or_else(|| make_uuid().to_string())
UnwrapOrMakeUuid(opt, u) ==
    IF opt = None THEN [id |-> make_uuid(u), u |-> u + 1]
    ELSE [id |-> opt[1], u |-> u]

\* "Generate symbol"; main passes args.author where make_symbol takes
\* keywords and args.keywords where it takes author (lines 442-443)
MakeSymbol ==
    /\ pc = "make_symbol"
    /\ \E t \in Instants, id \in {UnwrapOrMakeUuid(args.uuid_sym, uuids)} :
          \E s \in {make_symbol(id.id, args.name, args.description,
                                args.author, args.keywords, args.version,
                                args.uuid_cmpcat, polylines, id.u, t)} :
             /\ ids' = [ids EXCEPT !.sym = id.id]
             /\ sym' = s.lines
             /\ uuids' = s.u
    /\ pc' = "make_component"
    /\ UNCHANGED <<args, polylines, polygon, footprints, cmp, pkg, dev, files,
                   val, formatted>>

\* "Generate component" (author and keywords passed as in MakeSymbol)
MakeComponent ==
    /\ pc = "make_component"
    /\ \E t \in Instants, id \in {UnwrapOrMakeUuid(args.uuid_cmp, uuids)} :
          \E c \in {make_component(id.id, args.name, args.description,
                                   args.author, args.keywords, args.version,
                                   ids.sym, args.uuid_cmpcat, id.u, t)} :
             /\ ids' = [ids EXCEPT !.cmp = id.id]
             /\ cmp' = c.lines
             /\ uuids' = c.u
    /\ pc' = "make_package"
    /\ UNCHANGED <<args, polylines, polygon, footprints, sym, pkg, dev, files,
                   val, formatted>>

\* "Generate package"
MakePackage ==
    /\ pc = "make_package"
    /\ \E t \in Instants, id \in {UnwrapOrMakeUuid(args.uuid_pkg, uuids)} :
              /\ ids' = [ids EXCEPT !.pkg = id.id]
              /\ pkg' = make_package(id.id, args.name, args.description,
                                     args.author, args.keywords, args.version,
                                     args.uuid_pkgcat, footprints, t)
              /\ uuids' = id.u
    /\ pc' = "make_device"
    /\ UNCHANGED <<args, polylines, polygon, footprints, sym, cmp, dev, files,
                   val, formatted>>

\* "Generate device"
MakeDevice ==
    /\ pc = "make_device"
    /\ \E t \in Instants, id \in {UnwrapOrMakeUuid(args.uuid_dev, uuids)} :
              /\ ids' = [ids EXCEPT !.dev = id.id]
              /\ dev' = make_device(id.id, args.name, args.description,
                                    args.author, args.keywords, args.version,
                                    ids.cmp, ids.pkg, args.uuid_cmpcat, t)
              /\ uuids' = id.u
    /\ pc' = "create_dir_sym"
    /\ UNCHANGED <<args, polylines, polygon, footprints, sym, cmp, pkg, files,
                   val, formatted>>

\* "Write files to library", in program order (lines 494-505), then the echo
Entities == <<"sym", "cmp", "pkg", "dev">>
DocName == [sym |-> "symbol.lp", cmp |-> "component.lp",
            pkg |-> "package.lp", dev |-> "device.lp"]
IoOrder ==
    [k \in 1..4 |-> "create_dir_" \o Entities[k]]
    \o [k \in 1..4 |-> "write_marker_" \o Entities[k]]
    \o [k \in 1..4 |-> "write_doc_" \o Entities[k]]
    \o <<"echo">>
AfterIo(p) == IoOrder[(CHOOSE k \in 1..Len(IoOrder) : IoOrder[k] = p) + 1]

\* lib_path.join(e).join(&uuid_e)
EntityPath(e) == <<e, ids[e]>>
MarkerPath(e) == EntityPath(e) \o <<".librepcb-" \o e>>
DocumentPath(e) == EntityPath(e) \o <<DocName[e]>>

\* An entry of the file system: a directory, a file holding all of its
\* content ("full"), or a file created or truncated but not filled ("partial")
Entry(path, content) == [path |-> path, content |-> content]

\* The file at path now holds content, whatever it held before
Written(path, content) ==
    {f \in files : f.path # path} \cup {Entry(path, content)}

\* fs::create_dir_all(&e_path) succeeds: <lib>/e, then <lib>/e/<uuid>
CreateDirAll(e) ==
    /\ pc = "create_dir_" \o e
    /\ files' = files \cup {Entry(<<e>>, "dir"), Entry(EntityPath(e), "dir")}
    /\ pc' = AfterIo(pc)
    /\ UNCHANGED <<args, polylines, uuids, polygon, footprints, sym, cmp, pkg,
                   dev, ids, val, formatted>>

\* fs::create_dir_all creates <lib>/e and fails on <lib>/e/<uuid>: unwrap()
\* panics
CreateDirAllPartial(e) ==
    /\ pc = "create_dir_" \o e
    /\ files' = files \cup {Entry(<<e>>, "dir")}
    /\ pc' = "panicked"
    /\ UNCHANGED <<args, polylines, uuids, polygon, footprints, sym, cmp, pkg,
                   dev, ids, val, formatted>>

\* fs::write(e_path.join(".librepcb-e"), "0.1") succeeds
WriteMarker(e) ==
    /\ pc = "write_marker_" \o e
    /\ files' = Written(MarkerPath(e), "full")
    /\ pc' = AfterIo(pc)
    /\ UNCHANGED <<args, polylines, uuids, polygon, footprints, sym, cmp, pkg,
                   dev, ids, val, formatted>>

\* fs::write creates the marker and fails to fill it: unwrap() panics
WriteMarkerPartial(e) ==
    /\ pc = "write_marker_" \o e
    /\ files' = Written(MarkerPath(e), "partial")
    /\ pc' = "panicked"
    /\ UNCHANGED <<args, polylines, uuids, polygon, footprints, sym, cmp, pkg,
                   dev, ids, val, formatted>>

\* fs::write(e_path.join("<entity>.lp"), lines.join("\n")) succeeds
WriteDocument(e) ==
    /\ pc = "write_doc_" \o e
    /\ files' = Written(DocumentPath(e), "full")
    /\ pc' = AfterIo(pc)
    /\ UNCHANGED <<args, polylines, uuids, polygon, footprints, sym, cmp, pkg,
                   dev, ids, val, formatted>>

\* fs::write creates the document and fails to fill it: unwrap() panics
WriteDocumentPartial(e) ==
    /\ pc = "write_doc_" \o e
    /\ files' = Written(DocumentPath(e), "partial")
    /\ pc' = "panicked"
    /\ UNCHANGED <<args, polylines, uuids, polygon, footprints, sym, cmp, pkg,
                   dev, ids, val, formatted>>

\* create_dir_all or write returns Err before it creates anything: unwrap()
\* panics, what was written stays
IoPanic ==
    /\ \E k \in 1..12 : pc = IoOrder[k]
    /\ pc' = "panicked"
    /\ UNCHANGED <<args, polylines, uuids, polygon, footprints, sym, cmp, pkg,
                   dev, ids, files, val, formatted>>

\* println!("{}", svg_string); Ok(())
Echo ==
    /\ pc = "echo"
    /\ pc' = "done"
    /\ UNCHANGED <<args, polylines, uuids, polygon, footprints, sym, cmp, pkg,
                   dev, ids, files, val, formatted>>

\* stdout cannot be written: println! panics, the four documents stay
EchoPanic ==
    /\ pc = "echo"
    /\ pc' = "panicked"
    /\ UNCHANGED <<args, polylines, uuids, polygon, footprints, sym, cmp, pkg,
                   dev, ids, files, val, formatted>>

Next ==
    \/ LoadSvg \/ LoadSvgErr
    \/ ParseSvg \/ ParseSvgPanic
    \/ OutpathOk \/ OutpathInvalid \/ OutpathInvalidPanic
    \/ MakeFootprints \/ MakeSymbol \/ MakeComponent \/ MakePackage
    \/ MakeDevice
    \/ \E e \in {"sym", "cmp", "pkg", "dev"} :
          \/ CreateDirAll(e) \/ CreateDirAllPartial(e)
          \/ WriteMarker(e) \/ WriteMarkerPartial(e)
          \/ WriteDocument(e) \/ WriteDocumentPartial(e)
    \/ IoPanic
    \/ Echo \/ EchoPanic

Spec == Init /\ [][Next]_vars

-----------------------------------------------------------------------------
(* Reading the emitted text back *)

DigitVal(c) == CHOOSE d \in 0..9 : DigitChars[d + 1] = c

RECURSIVE NatOf(_)
NatOf(ds) ==
    IF ds = <<>> THEN 0
    ELSE 10 * NatOf(SubSeq(ds, 1, Len(ds) - 1)) + DigitVal(ds[Len(ds)])

\* The number a decimal text denotes, in thousandths (at most 3 decimals).
Parse(s) ==
    LET neg  == s[1] = "-"
        body == IF neg THEN Tail(s) ELSE s
        dot  == CHOOSE i \in 1..Len(body) : body[i] = "."
        frac == SubSeq(body, dot + 1, Len(body))
        n    == 1000 * NatOf(SubSeq(body, 1, dot - 1))
                + NatOf(frac) * 10 ^ (3 - Len(frac))
    IN  IF neg THEN -n ELSE n

\* A real number in units of 1/Scale, in thousandths
InThousandths(n) == n \div (Scale \div 1000)

VertexOpener == "  (vertex (position "
IsVertex(line) == line[1] = VertexOpener

\* The two coordinate texts of a vertex line
XText(line) ==
    SubSeq(line, 2, (CHOOSE i \in 2..Len(line) : line[i] = " ") - 1)
YText(line) ==
    SubSeq(line, (CHOOSE i \in 2..Len(line) : line[i] = " ") + 1, Len(line) - 1)

\* The number text of a label's position line
LabelText(line) == SubSeq(line, 2, Len(line) - 1)

\* Index, in the lines of make_polygon, of the first line of block i
BlockStart(pls, i) ==
    LET RECURSIVE Before(_)
        Before(k) == IF k = 0 THEN 0 ELSE Before(k - 1) + Len(pls[k]) + 3
    IN  Before(i - 1) + 1

\* The bounding box of all points, as real numbers in units of 1/Scale
Coord(pls, axis) ==
    UNION {{Num(pls[i][j][axis]) : j \in 1..Len(pls[i])} : i \in 1..Len(pls)}
Least(S) == CHOOSE v \in S : \A w \in S : v <= w
Greatest(S) == CHOOSE v \in S : \A w \in S : v >= w

\* The offset table of the alignment modes, over the reals
Dx(align, pls) ==
    LET xs == Coord(pls, "x")
        lo == Least(xs)
        hi == Greatest(xs)
    IN  CASE align = "None"       -> 0
          [] align = "Center"     -> -lo - (hi - lo) \div 2
          [] align = "TopLeft"    -> -lo
          [] align = "BottomLeft" -> -lo
Dy(align, pls) ==
    LET ys == Coord(pls, "y")
        lo == Least(ys)
        hi == Greatest(ys)
    IN  CASE align = "None"       -> 0
          [] align = "Center"     -> -lo - (hi - lo) \div 2
          [] align = "TopLeft"    -> -lo
          [] align = "BottomLeft" -> -hi

\* The line is the vertex (x + dx, -(y + dy)) of the point p
EmitsPoint(line, p, dx, dy) ==
    /\ IsVertex(line)
    /\ Parse(XText(line)) = InThousandths(Num(p.x) + dx)
    /\ Parse(YText(line)) = InThousandths(-(Num(p.y) + dy))

-----------------------------------------------------------------------------
(* Claims about format_float *)

\* s with every trailing zero removed that is not the digit after the point
RECURSIVE Canonical(_)
Canonical(s) ==
    IF Len(s) >= 2 /\ s[Len(s)] = "0" /\ s[Len(s) - 1] # "."
    THEN Canonical(SubSeq(s, 1, Len(s) - 1))
    ELSE s

\* C1: format_float returns "0.0" for a zero of either sign and otherwise
\* the 3-decimal rendering with its trailing fractional zeros stripped down
\* to at least one fractional digit; the result has exactly one decimal
\* point, does not end in the point, and ends in a zero only directly after
\* the point; 3.14456, -7.0, 0.4 and -0.0 give "3.145", "-7.0", "0.4", "0.0".
C1_FormatFloat ==
    pc = "formatted" =>
        /\ val.sig = <<>> => formatted = <<"0", ".", "0">>
        /\ val.sig # <<>> => formatted = Canonical(Fixed3(val))
        /\ Cardinality({i \in 1..Len(formatted) : formatted[i] = "."}) = 1
        /\ formatted[Len(formatted)] # "."
        /\ formatted[Len(formatted)] = "0" => formatted[Len(formatted) - 1] = "."
        /\ val = F(FALSE, 314456) => formatted = <<"3", ".", "1", "4", "5">>
        /\ val = F(TRUE, 700000) => formatted = <<"-", "7", ".", "0">>
        /\ val = F(FALSE, 40000) => formatted = <<"0", ".", "4">>
        /\ val = F(TRUE, 0) => formatted = <<"0", ".", "0">>

\* -7.0 has been formatted: two zeros were stripped, one kept.
C1_Witness ==
    /\ pc = "formatted"
    /\ val = F(TRUE, 700000)
    /\ formatted = <<"-", "7", ".", "0">>

-----------------------------------------------------------------------------
(* Claims about make_polygon, make_footprint and make_symbol *)

\* C2: make_polygon emits every point (x, y) of a non-empty collection as
\* the vertex (x + dx, -(y + dy)), with (dx, dy) taken once from the
\* bounding box of all points of all polylines by the table of the
\* alignment modes.
C2_Transform ==
    (pc # "make_polygon" /\ polylines # <<>>) =>
        LET dx == Dx(args.align, polylines)
            dy == Dy(args.align, polylines)
        IN  \A i \in 1..Len(polylines) : \A j \in 1..Len(polylines[i]) :
                EmitsPoint(polygon.lines[BlockStart(polylines, i) + 1 + j],
                           polylines[i][j], dx, dy)

\* Center on the box (0,0)-(4,4): the point (0, 0) is emitted at (-2, 2).
C2_Witness ==
    /\ pc = "make_footprint"
    /\ args.align = "Center"
    /\ polylines = <<Open2, <<Pt(Lit(4), Lit(4))>> >>
    /\ polygon.lines[3] =
          <<VertexOpener, "-", "2", ".", "0", "0", "0", " ",
            "2", ".", "0", "0", "0", ") (angle 0.0))">>

StyleLine(width, fill) ==
    <<"  (width ", width, ") (fill ", fill, ") (grab_area ", fill, ")">>

\* C3: each polygon block is styled by the closedness of its own polyline:
\* first point equal to last point gives width 0.0, fill true, otherwise
\* width 0.2, fill false; grab_area carries the value of fill.
C3_Closedness ==
    pc # "make_polygon" =>
        \A i \in 1..Len(polylines) :
            LET pl   == polylines[i]
                line == polygon.lines[BlockStart(polylines, i) + 1]
            IN  /\ Num(pl[1].x) = Num(pl[Len(pl)].x)
                   /\ Num(pl[1].y) = Num(pl[Len(pl)].y)
                   => line = StyleLine("0.0", "true")
                /\ Num(pl[1].x) # Num(pl[Len(pl)].x)
                   \/ Num(pl[1].y) # Num(pl[Len(pl)].y)
                   => line = StyleLine("0.2", "false")

\* An open polyline followed by a closed one (a single point is its own
\* first and last point), each styled on its own.
C3_Witness ==
    /\ pc = "make_footprint"
    /\ Len(polylines) = 2
    /\ polylines[1] = Open2
    /\ Len(polylines[2]) = 1
    /\ polygon.lines[2] = StyleLine("0.2", "false")
    /\ polygon.lines[7] = StyleLine("0.0", "true")

\* C4: every numeric field of a generated document is format_float's
\* rendering of its value; in particular both coordinates of every vertex
\* and the y position of both labels of the symbol.
C4_AllFieldsNormalized ==
    pc = "built" =>
        /\ \A k \in 1..Len(footprints[1]) :
              LET line == footprints[1][k]
              IN  IsVertex(line) =>
                     /\ XText(line) = Canonical(XText(line))
                     /\ YText(line) = Canonical(YText(line))
                     /\ Parse(YText(line)) = 0 => YText(line) = <<"0", ".", "0">>
        /\ \A k \in 1..Len(sym) :
              sym[k][1] \in {"  (align center top) (height 2.5) (position 0.0 ",
                             "  (align center bottom) (height 2.5) (position 0.0 "}
              => LabelText(sym[k]) = Canonical(LabelText(sym[k]))

Kind(line) == line[1]
Kinds(lines) == [k \in 1..Len(lines) |-> Kind(lines[k])]

\* The kinds of the lines of one polygon block per polyline, in order
RECURSIVE BlockKinds(_)
BlockKinds(pls) ==
    IF pls = <<>> THEN <<>>
    ELSE <<" (polygon ", "  (width ">>
         \o [j \in 1..Len(Head(pls)) |-> VertexOpener]
         \o <<" )">>
         \o BlockKinds(Tail(pls))

\* C9: a footprint holds one polygon block per polyline, in input order,
\* each with one vertex per point of that polyline, in input order; with no
\* polylines the footprint is its opening line, name, description and
\* closing line, and the symbol has no polygon block.
C9_FootprintBlocks ==
    /\ pc \in {"make_symbol", "built"} =>
        /\ Kinds(footprints[1]) =
              <<"(footprint ", " (name ", " (description ">>
              \o BlockKinds(polylines) \o <<")">>
        /\ polylines # <<>> =>
              LET dx == Dx(args.align, polylines)
                  dy == Dy(args.align, polylines)
              IN  \A i \in 1..Len(polylines) : \A j \in 1..Len(polylines[i]) :
                      EmitsPoint(footprints[1][3 + BlockStart(polylines, i) + 1 + j],
                                 polylines[i][j], dx, dy)
    /\ pc = "built" =>
        Cardinality({k \in 1..Len(sym) : Kind(sym[k]) = " (polygon "})
            = Len(polylines)

\* No polylines: the footprint is a shell of four lines.
C9_Witness ==
    /\ pc = "built"
    /\ polylines = <<>>
    /\ Len(footprints[1]) = 4
    /\ \A k \in 1..Len(sym) : Kind(sym[k]) # " (polygon "

VertexYs(lines) ==
    {Parse(YText(lines[k])) : k \in {n \in 1..Len(lines) : IsVertex(lines[n])}}
VertexXs(lines) ==
    {Parse(XText(lines[k])) : k \in {n \in 1..Len(lines) : IsVertex(lines[n])}}

LabelY(lines, layer) ==
    LET k == CHOOSE n \in 1..Len(lines) :
                 Kind(lines[n]) = " (text " /\ lines[n][3] = layer
    IN  Parse(LabelText(lines[k + 1]))

\* C10: whatever alignment the caller selected, the outline of a symbol
\* built from a non-empty collection is centred on the origin, the value
\* label is 1.27 below the smallest emitted vertex y and the name label
\* 1.27 above the largest.
C10_Labels ==
    (pc = "built" /\ polylines # <<>>) =>
        /\ Least(VertexXs(sym)) = -Greatest(VertexXs(sym))
        /\ Least(VertexYs(sym)) = -Greatest(VertexYs(sym))
        /\ LabelY(sym, " (layer sym_values) (value ")
              = Least(VertexYs(sym)) - 1270
        /\ LabelY(sym, " (layer sym_names) (value ")
              = Greatest(VertexYs(sym)) + 1270

\* The caller asked for TopLeft; the outline (0,0)-(2,2) is emitted between
\* y = -1 and y = 1 and the value label sits at -2.27.
C10_Witness ==
    /\ pc = "built"
    /\ args.align = "TopLeft"
    /\ polylines = <<Open2>>
    /\ VertexYs(sym) = {-1000, 1000}
    /\ LabelY(sym, " (layer sym_values) (value ") = -2270

-----------------------------------------------------------------------------
(* Claims about a run *)

Documents == <<sym, cmp, pkg, dev>>

\* The four documents have been generated.
Generated == dev # <<>>

MetadataKinds ==
    <<" (name ", " (description ", " (keywords ", " (author ", " (version ",
      " (created ", " (deprecated false)">>

\* The text between the quotes of a quoted line, as the program inserted it
Inserted(line) == SubSeq(line, 3, Len(line) - 2)

\* C5: each document lists name, description, keywords, author, version,
\* created, deprecated false and the optional category in this order, and
\* each field holds the caller's value of that name.
C5_MetadataFields ==
    Generated =>
        \A d \in 1..4 :
            LET doc == Documents[d]
            IN  /\ SubSeq(Kinds(doc), 2, 8) = MetadataKinds
                /\ Inserted(doc[2]) = args.name
                /\ Inserted(doc[3]) = args.description
                /\ Inserted(doc[4]) = args.keywords
                /\ Inserted(doc[5]) = args.author
                /\ Inserted(doc[6]) = args.version

\* The positions of the double quotes of a line
Quotes(line) == {i \in 1..Len(line) : line[i] = QUOTE}

\* C6: in the emitted line of every metadata text, no double quote between
\* the opening quote and the closing quote is unescaped.
C6_QuotesEscaped ==
    Generated =>
        \A d \in 1..4 : \A k \in 2..6 :
            LET line == Documents[d][k]
                open == Least(Quotes(line))
                shut == Greatest(Quotes(line))
            IN  \A i \in Quotes(line) :
                    (open < i /\ i < shut) => (i - 1 > open /\ line[i - 1] = "\\")

NodeOpeners ==
    {"(librepcb_symbol ", "(librepcb_component ", "(librepcb_package ",
     "(librepcb_device ", "(footprint ", " (polygon ", " (text ",
     " (variant ", "  (gate "}

\* The identifier of the node a line opens, if it opens one
NodeId(line) ==
    LET l == IF line[1] = " " THEN Tail(line) ELSE line
    IN  IF l[1] \in NodeOpeners
        THEN <<IF l[2] = QUOTE THEN l[3] ELSE l[2]>>
        ELSE <<>>

RECURSIVE NodeIds(_)
NodeIds(lines) ==
    IF lines = <<>> THEN <<>> ELSE NodeId(Head(lines)) \o NodeIds(Tail(lines))

AllNodeIds == NodeIds(sym \o cmp \o pkg \o dev)

\* C7: no identifier is used for two structural nodes of a run, whatever
\* identifiers the caller supplied.
C7_DistinctIdentifiers ==
    Generated =>
        \A i, j \in 1..Len(AllNodeIds) : i # j => AllNodeIds[i] # AllNodeIds[j]

Ended == pc \in {"done", "panicked", "exit_1", "error"}

\* The documents that hold all of their content
DocumentsWritten ==
    {e \in {"sym", "cmp", "pkg", "dev"} : Entry(DocumentPath(e), "full") \in files}

\* C8: a run ends with all four documents written or with none.
C8_AllOrNothing ==
    Ended => (DocumentsWritten = {} \/ DocumentsWritten = {"sym", "cmp", "pkg", "dev"})

====
